---- MODULE Spec2Model ----
(***************************************************************************)
(* Caption-then-Extract pipeline of app.py: call_blip_endpoint,            *)
(* call_llm_endpoint and the batch loop over uploaded_files.               *)
(*                                                                         *)
(* Python values are tagged pairs <<type, payload>>:                       *)
(*   None  <<"none", <<>>>>                                                *)
(*   str   <<"str",  sequence of characters>>                              *)
(*   int   <<"num",  sequence of digits>>                                  *)
(*   list  <<"list", sequence of values>>                                  *)
(*   dict  <<"dict", sequence of <<key, value>>>>, keys distinct,          *)
(*          a key being the character sequence of a str                    *)
(* TypeOf(x) and Val(x) read the two parts.                                *)
(* A "character" is either one character or an indivisible run of          *)
(* characters ("color", "null", "https://", a whole fixed message).        *)
(***************************************************************************)
EXTENDS Integers, Sequences, FiniteSets, TLC

VARIABLES
    mode,               \* "unit_blip", "unit_llm": one direct call; "batch": the button handler
    cfg,                \* BLIP_ENDPOINT_URL, LLM_ENDPOINT_NAME, DATABRICKS_HOST, DATABRICKS_API_TOKEN
    pc,                 \* position of the running script
    blip_remote,        \* what the captioning service answers to the call in flight
    llm_remote,         \* what the language-model service answers to the call in flight
    blip_ret,           \* what call_blip_endpoint returned
    llm_ret,            \* what call_llm_endpoint returned
    n_files,            \* len(uploaded_files)
    file_index,         \* index of the image whose pipeline runs (0-based)
    calls,              \* the helper calls made so far, in order
    shown               \* per image, what the handler displayed

vars == <<mode, cfg, pc, blip_remote, llm_remote, blip_ret, llm_ret,
          n_files, file_index, calls, shown>>

----------------------------------------------------------------------------
(* Bounds *)

MaxCaptionLen == 5
MaxTextLen == 4
MaxItems == 2
MaxFiles == 2

----------------------------------------------------------------------------
(* Python values *)

None == <<"none", <<>>>>
Str(s) == <<"str", s>>
Num(d) == <<"num", d>>
List(xs) == <<"list", xs>>
Dict(ps) == <<"dict", ps>>

TypeOf(x) == x[1]
Val(x) == x[2]

\* bool(x) for the values the code tests: None, str, list
Truthy(x) == TypeOf(x) # "none" /\ Len(Val(x)) > 0

\* `sub in s` for two strings
Contains(s, sub) ==
    \E i \in 0..(Len(s) - Len(sub)) : SubSeq(s, i + 1, i + Len(sub)) = sub

\* s.startswith(prefixes)
StartsWith(s, prefixes) ==
    \E p \in prefixes : Len(p) <= Len(s) /\ SubSeq(s, 1, Len(p)) = p

\* `key in d` for a dict
HasKey(d, key) == \E i \in DOMAIN Val(d) : Val(d)[i][1] = key

\* d[key] for a dict that has the key
GetKey(d, key) == Val(d)[CHOOSE i \in DOMAIN Val(d) : Val(d)[i][1] = key][2]

\* d[key] = val
SetKey(d, key, val) ==
    IF HasKey(d, key)
    THEN Dict([i \in DOMAIN Val(d) |->
                 IF Val(d)[i][1] = key THEN <<key, val>> ELSE Val(d)[i]])
    ELSE Dict(Append(Val(d), <<key, val>>))

\* d.get(key, default)
DictGet(d, key, default) == IF HasKey(d, key) THEN GetKey(d, key) ELSE default

RECURSIVE SeqsUpTo(_, _)
SeqsUpTo(S, n) ==
    IF n = 0 THEN {<<>>}
    ELSE LET shorter == SeqsUpTo(S, n - 1)
         IN shorter \cup {Append(s, c) : s \in shorter, c \in S}

\* str.lower() on the characters used here
LowerChar(c) ==
    CASE c = "E" -> "e"
      [] c = "R" -> "r"
      [] c = "O" -> "o"
      [] OTHER -> c

Lower(s) == [i \in DOMAIN s |-> LowerChar(s[i])]

----------------------------------------------------------------------------
(* What a helper returns: the pair (value, error), the number of remote    *)
(* requests it sent, and the steps of its body it went through.            *)

Ret(value, error, net, steps) ==
    [value |-> value, error |-> error, net |-> net, steps |-> steps]

NotCalled == Ret(None, None, 0, <<>>)

Msg(m) == Str(<<m>>)

----------------------------------------------------------------------------
(* call_blip_endpoint *)

BLIP_URL_SENTINEL == <<"YOUR_BLIP_ENDPOINT_URL_HERE">>
PAT_SENTINEL == <<"YOUR_DATABRICKS_PAT_HERE">>

\* `'predictions' in result`: "TypeError" where Python raises it
InResult(key, result) ==
    CASE TypeOf(result) = "dict" -> IF HasKey(result, key) THEN "True" ELSE "False"
      [] TypeOf(result) = "list" ->
            IF \E i \in DOMAIN Val(result) :
                   TypeOf(Val(result)[i]) = "str" /\ Val(Val(result)[i]) = key
            THEN "True" ELSE "False"
      [] TypeOf(result) = "str" -> IF Contains(Val(result), key) THEN "True" ELSE "False"
      [] OTHER -> "TypeError"

\* mutant: the {"0": str} shape is not read
ParsePredictionItem_StrOnly(prediction_item) ==
    IF TypeOf(prediction_item) = "str" THEN prediction_item ELSE None

\* lines 70-74: the caption taken from the first prediction, or None
ParsePredictionItem(prediction_item) ==
    IF TypeOf(prediction_item) = "str" THEN prediction_item
    ELSE IF TypeOf(prediction_item) = "dict" /\ HasKey(prediction_item, <<"0">>)
            /\ TypeOf(GetKey(prediction_item, <<"0">>)) = "str"
         THEN GetKey(prediction_item, <<"0">>)
         ELSE None

\* mutant: "error" is looked for without lower()
CaptionOk_CaseSensitive(caption) ==
    Truthy(caption) /\ Len(Val(caption)) > 3
    /\ ~Contains(Val(caption), <<"e", "r", "r", "o", "r">>)

\* mutant: the caption is returned without the check of line 76
CaptionOk_Unchecked(caption) == TRUE

\* line 76
CaptionOk(caption) ==
    Truthy(caption) /\ Len(Val(caption)) > 3
    /\ ~Contains(Lower(Val(caption)), <<"e", "r", "r", "o", "r">>)

\* lines 69-79, on the decoded body of a 2xx response
HandleBlipBody(result) ==
    LET has == InResult(<<"predictions">>, result) IN
    IF has = "TypeError"
    THEN Ret(None, Msg("Unexpected error calling BLIP"), 1, <<"config", "post", "except">>)
    ELSE IF has = "False"
    THEN Ret(None, Msg("Unexpected BLIP response format"), 1, <<"config", "post", "shape">>)
    ELSE IF TypeOf(result) # "dict"
    \* result['predictions'] on a list or a str raises TypeError
    THEN Ret(None, Msg("Unexpected error calling BLIP"), 1, <<"config", "post", "except">>)
    ELSE LET predictions == GetKey(result, <<"predictions">>) IN
         IF ~(TypeOf(predictions) = "list" /\ Len(Val(predictions)) > 0)
         THEN Ret(None, Msg("Unexpected BLIP response format"), 1, <<"config", "post", "shape">>)
         ELSE LET caption == ParsePredictionItem(Val(predictions)[1]) IN
              IF CaptionOk(caption)
              THEN Ret(caption, None, 1, <<"config", "post", "shape", "caption">>)
              ELSE Ret(None, Msg("Invalid caption/error from BLIP"), 1,
                       <<"config", "post", "shape", "caption">>)

\* lines 54-55: the error of the configuration check, or None
BlipConfigError(blip_url, token) ==
    IF ~(Len(blip_url) > 0) \/ Contains(blip_url, BLIP_URL_SENTINEL)
    THEN Msg("BLIP Endpoint URL missing.")
    ELSE IF ~(Len(token) > 0) \/ Contains(token, PAT_SENTINEL)
    THEN Msg("Databricks API Token missing.")
    ELSE None

\* lines 47-86; remote is the captioning service's answer to the one POST
call_blip_endpoint(blip_url, token, remote) ==
    IF TypeOf(BlipConfigError(blip_url, token)) # "none"
    THEN Ret(None, BlipConfigError(blip_url, token), 0, <<"config">>)
    ELSE CASE remote.kind = "timeout" ->
                Ret(None, Msg("Request to BLIP endpoint timed out."), 1, <<"config", "post", "except">>)
           [] remote.kind \in {"connection_error", "http_error", "body_not_json"} ->
                Ret(None, Msg("API Request Failed (BLIP)"), 1, <<"config", "post", "except">>)
           [] remote.kind = "body_not_json_valueerror" ->
                Ret(None, Msg("Unexpected error calling BLIP"), 1, <<"config", "post", "except">>)
           [] remote.kind = "ok" -> HandleBlipBody(remote.body)

----------------------------------------------------------------------------
(* json.loads on the characters used here: the six structural characters,  *)
(* the quote, a blank, the literal null, the digit 7, and letters.         *)

QUOTE == "\""
WS == {" "}
DIGITS == {"7"}

POk(val, pos) == [ok |-> TRUE, val |-> val, pos |-> pos]
PFail == [ok |-> FALSE, val |-> None, pos |-> 0]

\* index of the first character at or after i that is not whitespace
RECURSIVE SkipWs(_, _)
SkipWs(s, i) == IF i <= Len(s) /\ s[i] \in WS THEN SkipWs(s, i + 1) ELSE i

\* index after the run of digits starting at i
RECURSIVE SkipDigits(_, _)
SkipDigits(s, i) == IF i <= Len(s) /\ s[i] \in DIGITS THEN SkipDigits(s, i + 1) ELSE i

\* index of the first quote at or after i, or 0
RECURSIVE NextQuote(_, _)
NextQuote(s, i) ==
    IF i > Len(s) THEN 0 ELSE IF s[i] = QUOTE THEN i ELSE NextQuote(s, i + 1)

\* the string whose opening quote is at i - 1
ParseString(s, i) ==
    LET j == NextQuote(s, i) IN
    IF j = 0 THEN PFail ELSE POk(Str(SubSeq(s, i, j - 1)), j + 1)

RECURSIVE ParseValue(_, _), ParseElements(_, _, _), ParseMembers(_, _, _)

\* the array whose '[' is at i - 1
ParseArray(s, i) ==
    LET j == SkipWs(s, i) IN
    IF j <= Len(s) /\ s[j] = "]" THEN POk(List(<<>>), j + 1)
    ELSE ParseElements(s, j, <<>>)

\* the object whose '{' is at i - 1
ParseObject(s, i) ==
    LET j == SkipWs(s, i) IN
    IF j > Len(s) THEN PFail
    ELSE IF s[j] = "}" THEN POk(Dict(<<>>), j + 1)
    ELSE IF s[j] # QUOTE THEN PFail
    ELSE ParseMembers(s, j + 1, Dict(<<>>))

ParseValue(s, i) ==
    IF i > Len(s) THEN PFail
    ELSE CASE s[i] = QUOTE -> ParseString(s, i + 1)
           [] s[i] = "{" -> ParseObject(s, i + 1)
           [] s[i] = "[" -> ParseArray(s, i + 1)
           [] s[i] = "null" -> POk(None, i + 1)
           [] s[i] \in DIGITS -> POk(Num(SubSeq(s, i, SkipDigits(s, i) - 1)), SkipDigits(s, i))
           [] OTHER -> PFail

\* the elements from i on, after those in acc
ParseElements(s, i, acc) ==
    LET r == ParseValue(s, i) IN
    IF ~r.ok THEN PFail
    ELSE LET j == SkipWs(s, r.pos) IN
         IF j > Len(s) THEN PFail
         ELSE IF s[j] = "]" THEN POk(List(Append(acc, r.val)), j + 1)
         ELSE IF s[j] = "," THEN ParseElements(s, SkipWs(s, j + 1), Append(acc, r.val))
         ELSE PFail

\* the members from the key whose opening quote is at i - 1 on, after those in acc
ParseMembers(s, i, acc) ==
    LET key == ParseString(s, i) IN
    IF ~key.ok THEN PFail
    ELSE LET c == SkipWs(s, key.pos) IN
         IF c > Len(s) \/ s[c] # ":" THEN PFail
         ELSE LET r == ParseValue(s, SkipWs(s, c + 1)) IN
              IF ~r.ok THEN PFail
              ELSE LET j == SkipWs(s, r.pos)
                       d == SetKey(acc, Val(key.val), r.val)
                   IN IF j > Len(s) THEN PFail
                      ELSE IF s[j] = "}" THEN POk(d, j + 1)
                      ELSE IF s[j] = ","
                      THEN LET n == SkipWs(s, j + 1) IN
                           IF n <= Len(s) /\ s[n] = QUOTE
                           THEN ParseMembers(s, n + 1, d)
                           ELSE PFail
                      ELSE PFail

\* json.loads(s): ok is FALSE where it raises JSONDecodeError
JsonLoads(s) ==
    LET r == ParseValue(s, SkipWs(s, 1)) IN
    IF ~r.ok THEN PFail
    ELSE IF SkipWs(s, r.pos) # Len(s) + 1 THEN PFail
    ELSE r

----------------------------------------------------------------------------
(* str(x) *)

RECURSIVE Repr(_), ReprElements(_, _), ReprMembers(_, _)

Repr(x) ==
    CASE TypeOf(x) = "none" -> <<"None">>
      [] TypeOf(x) = "str" -> <<"'">> \o Val(x) \o <<"'">>
      [] TypeOf(x) = "num" -> Val(x)
      [] TypeOf(x) = "list" -> <<"[">> \o ReprElements(Val(x), 1) \o <<"]">>
      [] TypeOf(x) = "dict" -> <<"{">> \o ReprMembers(Val(x), 1) \o <<"}">>

ReprElements(xs, i) ==
    IF i > Len(xs) THEN <<>>
    ELSE (IF i > 1 THEN <<",", " ">> ELSE <<>>) \o Repr(xs[i]) \o ReprElements(xs, i + 1)

ReprMembers(ps, i) ==
    IF i > Len(ps) THEN <<>>
    ELSE (IF i > 1 THEN <<",", " ">> ELSE <<>>)
         \o Repr(Str(ps[i][1])) \o <<":", " ">> \o Repr(ps[i][2])
         \o ReprMembers(ps, i + 1)

PyStr(x) == IF TypeOf(x) = "str" THEN x ELSE Str(Repr(x))

----------------------------------------------------------------------------
(* call_llm_endpoint *)

LLM_NAME_SENTINEL == <<"YOUR_LLM_FOUNDATION_MODEL_NAME_HERE">>
HOST_SENTINEL == <<"YOUR_DATABRICKS_HOST_URL_HERE">>
SCHEMES == {<<"http://">>, <<"https://">>}

\* s.find(c), 0-based, -1 when absent
RECURSIVE FindFrom(_, _, _)
FindFrom(s, c, i) ==
    IF i > Len(s) THEN -1 ELSE IF s[i] = c THEN i - 1 ELSE FindFrom(s, c, i + 1)

Find(s, c) == FindFrom(s, c, 1)

\* mutant: find in place of rfind
RFind_First(s, c) == Find(s, c)

\* s.rfind(c), 0-based, -1 when absent
RECURSIVE RFindFrom(_, _, _)
RFindFrom(s, c, i) ==
    IF i < 1 THEN -1 ELSE IF s[i] = c THEN i - 1 ELSE RFindFrom(s, c, i - 1)

RFind(s, c) == RFindFrom(s, c, Len(s))

\* s[start : end + 1] for 0 <= start <= end < len(s)
Slice(s, start, end) == SubSeq(s, start + 1, end + 1)

\* mutant: `or` in place of `and`
ItemValid_EitherKey(item) ==
    TypeOf(item) = "dict" /\ (HasKey(item, <<"color">>) \/ HasKey(item, <<"type">>))

\* line 160
ItemValid(item) ==
    TypeOf(item) = "dict" /\ HasKey(item, <<"color">>) /\ HasKey(item, <<"type">>)

\* lines 161-162
CoerceItem(item) ==
    LET c == SetKey(item, <<"color">>,
                    PyStr(DictGet(item, <<"color">>, Str(<<"unknown">>))))
    IN SetKey(c, <<"type">>, PyStr(DictGet(c, <<"type">>, Str(<<"unknown">>))))

\* lines 158-164: the loop over output_data from item i on
RECURSIVE ValidateItems(_, _, _, _)
ValidateItems(output_data, i, validated_list, valid_items_found) ==
    IF i > Len(output_data)
    THEN [validated_list |-> validated_list, valid_items_found |-> valid_items_found]
    ELSE IF ItemValid(output_data[i])
         THEN ValidateItems(output_data, i + 1,
                            Append(validated_list, CoerceItem(output_data[i])), TRUE)
         ELSE ValidateItems(output_data, i + 1, validated_list, valid_items_found)

LlmSteps == <<"config", "client", "create", "content">>

\* lines 156-167, on the parsed candidate
HandleOutputData(output_data) ==
    IF TypeOf(output_data) = "list"
    THEN LET r == ValidateItems(Val(output_data), 1, <<>>, FALSE) IN
         IF ~r.valid_items_found /\ Len(Val(output_data)) > 0
         THEN Ret(None, Msg("LLM list items lacked keys"), 1,
                  LlmSteps \o <<"scan", "loads", "validate">>)
         ELSE Ret(List(r.validated_list), None, 1,
                  LlmSteps \o <<"scan", "loads", "validate">>)
    ELSE Ret(None, Msg("Parsed data not list"), 1, LlmSteps \o <<"scan", "loads">>)

\* lines 145-170, on content that is not None
ParseLlmContent(llm_response_content) ==
    LET start_index == Find(llm_response_content, "[")
        end_index == RFind(llm_response_content, "]")
    IN IF start_index # -1 /\ end_index # -1 /\ end_index >= start_index
       THEN LET json_list_str == Slice(llm_response_content, start_index, end_index)
                parsed == JsonLoads(json_list_str)
            IN IF parsed.ok THEN HandleOutputData(parsed.val)
               ELSE Ret(None, Msg("Failed to parse JSON list"), 1,
                        LlmSteps \o <<"scan", "loads">>)
       ELSE Ret(None, Msg("Could not find JSON list markers '[]'"), 1,
                LlmSteps \o <<"scan">>)

\* lines 133-141
EmptyContentError(finish_reason) ==
    Str(<<"LLM endpoint returned a null or empty response content.">>
        \o (IF finish_reason = <<"content_filter">>
            THEN <<" (Possibly due to content filtering)">>
            ELSE IF finish_reason = <<"length">>
            THEN <<" (Possibly due to max_tokens limit)">>
            ELSE <<>>))

\* lines 126-170, on the completion the create() call returned
HandleCompletion(chat_completion) ==
    LET choices == chat_completion.choices
        llm_response_content ==
            IF Len(choices) > 0 /\ TypeOf(choices[1].message) # "none"
            THEN Val(choices[1].message)[1] ELSE None
        finish_reason ==
            IF Len(choices) > 0 /\ Truthy(choices[1].finish_reason)
            THEN Val(choices[1].finish_reason) ELSE <<"unknown">>
    IN IF TypeOf(llm_response_content) = "none"
       THEN Ret(None, EmptyContentError(finish_reason), 1, LlmSteps)
       ELSE ParseLlmContent(Val(llm_response_content))

\* mutant: the scheme of the host is not checked
LlmConfigError_NoScheme(llm_endpoint_name, db_host, token) ==
    IF ~(Len(llm_endpoint_name) > 0) \/ Contains(llm_endpoint_name, LLM_NAME_SENTINEL)
    THEN Msg("LLM Endpoint Name missing.")
    ELSE IF ~(Len(db_host) > 0) \/ Contains(db_host, HOST_SENTINEL)
    THEN Msg("Databricks Host URL missing.")
    ELSE IF ~(Len(token) > 0) \/ Contains(token, PAT_SENTINEL)
    THEN Msg("Databricks API Token missing.")
    ELSE None

\* lines 95-98: the error of the configuration check, or None
LlmConfigError(llm_endpoint_name, db_host, token) ==
    IF ~(Len(llm_endpoint_name) > 0) \/ Contains(llm_endpoint_name, LLM_NAME_SENTINEL)
    THEN Msg("LLM Endpoint Name missing.")
    ELSE IF ~(Len(db_host) > 0) \/ Contains(db_host, HOST_SENTINEL)
    THEN Msg("Databricks Host URL missing.")
    ELSE IF ~(Len(token) > 0) \/ Contains(token, PAT_SENTINEL)
    THEN Msg("Databricks API Token missing.")
    ELSE IF ~StartsWith(db_host, SCHEMES)
    THEN Msg("Databricks Host URL must start https://.")
    ELSE None

\* lines 89-180; remote is what the client construction and the one
\* chat.completions.create call do
call_llm_endpoint(llm_endpoint_name, db_host, token, remote) ==
    IF TypeOf(LlmConfigError(llm_endpoint_name, db_host, token)) # "none"
    THEN Ret(None, LlmConfigError(llm_endpoint_name, db_host, token), 0, <<"config">>)
    ELSE CASE remote.kind = "client_error" ->
                Ret(None, Msg("Failed to initialize LLM client"), 0, <<"config", "client">>)
           [] remote.kind = "api_error" ->
                Ret(None, Msg("LLM API Call Failed"), 1, <<"config", "client", "create", "except">>)
           [] remote.kind = "completion" -> HandleCompletion(remote.completion)

----------------------------------------------------------------------------
(* Configuration values (lines 17-26): empty, the placeholder defaults,    *)
(* values that contain a placeholder, and real ones.                       *)

BLIP_URL_DEFAULT == <<"YOUR_BLIP_ENDPOINT_URL_HERE">>
LLM_NAME_DEFAULT == <<"YOUR_LLM_FOUNDATION_MODEL_NAME_HERE">>
HOST_DEFAULT == <<"https://", "YOUR_DATABRICKS_HOST_URL_HERE">>
TOKEN_DEFAULT == <<"dapi_", "YOUR_DATABRICKS_PAT_HERE">>

BlipUrls ==
    {<<>>, BLIP_URL_DEFAULT, <<"https://", "YOUR_BLIP_ENDPOINT_URL_HERE">>,
     <<"https://", "blip.example/invocations">>}
LlmNames == {<<>>, LLM_NAME_DEFAULT, <<"databricks-llama">>}
Hosts ==
    {<<>>, HOST_DEFAULT, <<"YOUR_DATABRICKS_HOST_URL_HERE">>,
     <<"https://", "adb.example">>, <<"http://", "adb.example">>,
     <<"adb.example">>, <<"ftp://", "adb.example">>, <<"adb.example", "https://">>}
Tokens == {<<>>, TOKEN_DEFAULT, <<"YOUR_DATABRICKS_PAT_HERE">>, <<"dapi_", "s3cr3t">>}

Config(url, name, host, token) ==
    [BLIP_ENDPOINT_URL |-> url, LLM_ENDPOINT_NAME |-> name,
     DATABRICKS_HOST |-> host, DATABRICKS_API_TOKEN |-> token]

GoodConfig ==
    Config(<<"https://", "blip.example/invocations">>, <<"databricks-llama">>,
           <<"https://", "adb.example">>, <<"dapi_", "s3cr3t">>)

Configs ==
    {Config(u, n, h, t) : u \in BlipUrls, n \in LlmNames, h \in Hosts, t \in Tokens}

\* the configurations a batch runs under: each value empty, the default or real
BatchConfigs ==
    {Config(u, n, h, t) :
        u \in {<<>>, BLIP_URL_DEFAULT, GoodConfig.BLIP_ENDPOINT_URL},
        n \in {<<>>, LLM_NAME_DEFAULT, GoodConfig.LLM_ENDPOINT_NAME},
        h \in {<<>>, HOST_DEFAULT, GoodConfig.DATABRICKS_HOST, <<"adb.example">>},
        t \in {<<>>, TOKEN_DEFAULT, GoodConfig.DATABRICKS_API_TOKEN}}

----------------------------------------------------------------------------
(* What the captioning service can answer to the POST of line 63 *)

BlipRemote(kind, body) == [kind |-> kind, body |-> body]

BlipFailures ==
    {BlipRemote(kd, None) :
        kd \in {"timeout", "connection_error", "http_error",
                "body_not_json", "body_not_json_valueerror"}}

CaptionChars == {"e", "r", "o", "R", "a"}

RedJacket == <<"a", " ", "r", "e", "d", " ", "j", "a", "c", "k", "e", "t">>
ErrorInvalidImage ==
    <<"E", "r", "r", "o", "r", ":", " ", "i", "n", "v", "a", "l", "i", "d", " ",
      "i", "m", "a", "g", "e">>

Captions ==
    SeqsUpTo(CaptionChars, MaxCaptionLen)
    \cup {RedJacket, ErrorInvalidImage, <<"a", "b">>,
          <<"n", "o", " ">> \o <<"E", "R", "R", "O", "R">>}

\* {"0": x}
Keyed0(x) == Dict(<<<< <<"0">>, x >>>>)

\* first predictions that are neither a str nor {"0": str}
OddPredictionItems ==
    {None, Num(<<"7">>), Num(<<"7", "7", "7", "7">>), Dict(<<>>), List(<<Str(RedJacket)>>),
     Dict(<<<< <<"1">>, Str(RedJacket) >>>>), Keyed0(Num(<<"7">>)), Keyed0(None),
     Keyed0(Keyed0(Str(RedJacket)))}

\* {"predictions": x}
Predictions(x) == Dict(<<<< <<"predictions">>, x >>>>)

\* decoded bodies that hold no non-empty predictions list
OddBodies ==
    {Dict(<<>>), Dict(<<<< <<"error">>, Str(RedJacket) >>>>),
     Predictions(List(<<>>)), Predictions(None), Predictions(Str(RedJacket)),
     Predictions(Keyed0(Str(RedJacket))), Predictions(Num(<<"7">>)),
     List(<<>>), List(<<Str(RedJacket)>>), List(<<Str(<<"predictions">>)>>),
     Str(<<"predictions">>), Str(RedJacket), Num(<<"7">>), None}

BlipBodies ==
    {Predictions(List(<<Str(c)>>)) : c \in Captions}
    \cup {Predictions(List(<<Keyed0(Str(c))>>)) : c \in Captions}
    \cup {Predictions(List(<<x>>)) : x \in OddPredictionItems}
    \cup {Predictions(List(<<Str(RedJacket), x>>)) : x \in OddPredictionItems}
    \cup OddBodies

BlipRemotes == BlipFailures \cup {BlipRemote("ok", b) : b \in BlipBodies}

\* the answers used where the configuration varies too
FewBlipRemotes ==
    BlipFailures
    \cup {BlipRemote("ok", b) :
            b \in {Predictions(List(<<Str(RedJacket)>>)),
                   Predictions(List(<<Keyed0(Str(RedJacket))>>)),
                   Predictions(List(<<Str(<<"a", "b">>)>>)),
                   Predictions(List(<<Num(<<"7">>)>>)),
                   Predictions(List(<<>>)), Num(<<"7">>)}}

----------------------------------------------------------------------------
(* What the language-model service can answer to the create() of line 121 *)

\* JSON text of a value; sep follows ',' and ':' (empty or one blank)
RECURSIVE Render(_, _), RenderElements(_, _, _), RenderMembers(_, _, _)

Render(x, sep) ==
    CASE TypeOf(x) = "none" -> <<"null">>
      [] TypeOf(x) = "str" -> <<QUOTE>> \o Val(x) \o <<QUOTE>>
      [] TypeOf(x) = "num" -> Val(x)
      [] TypeOf(x) = "list" -> <<"[">> \o RenderElements(Val(x), 1, sep) \o <<"]">>
      [] TypeOf(x) = "dict" -> <<"{">> \o RenderMembers(Val(x), 1, sep) \o <<"}">>

RenderElements(xs, i, sep) ==
    IF i > Len(xs) THEN <<>>
    ELSE (IF i > 1 THEN <<",">> \o sep ELSE <<>>)
         \o Render(xs[i], sep) \o RenderElements(xs, i + 1, sep)

RenderMembers(ps, i, sep) ==
    IF i > Len(ps) THEN <<>>
    ELSE (IF i > 1 THEN <<",">> \o sep ELSE <<>>)
         \o Render(Str(ps[i][1]), sep) \o <<":">> \o sep \o Render(ps[i][2], sep)
         \o RenderMembers(ps, i + 1, sep)

Pair(key, val) == <<key, val>>
ColorType(c, t) == Dict(<<Pair(<<"color">>, c), Pair(<<"type">>, t)>>)

BlueJacket == ColorType(Str(<<"blue">>), Str(<<"jacket">>))
TypeShirtOnly == Dict(<<Pair(<<"type">>, Str(<<"shirt">>))>>)
ColorRedOnly == Dict(<<Pair(<<"color">>, Str(<<"red">>))>>)
NullColorShirt == ColorType(None, Str(<<"shirt">>))
NumColorNullType == ColorType(Num(<<"7">>), None)

\* entries a model's list can hold
ItemPool ==
    {BlueJacket, TypeShirtOnly, ColorRedOnly, NullColorShirt, NumColorNullType,
     Dict(<<Pair(<<"type">>, Str(<<"shirt">>)), Pair(<<"size">>, Num(<<"7">>)),
            Pair(<<"color">>, Str(<<"white">>))>>),
     ColorType(List(<<Str(<<"red">>), None>>), Dict(<<>>)),
     Str(<<"color">>), None, Dict(<<>>)}

ItemLists == SeqsUpTo(ItemPool, MaxItems)

\* prose around the list; some of it holds a stray bracket
Prefixes == {<<>>, <<"Some items", ":", " ">>, <<"x", "]", " ">>, <<"[", "x", " ">>}
Suffixes == {<<>>, <<" ", "x">>, <<" ", "[">>, <<" ", "]">>}

ComposedTexts ==
    {pre \o Render(List(xs), sep) \o suf :
        pre \in Prefixes, xs \in ItemLists, sep \in {<<>>, <<" ">>}, suf \in Suffixes}

ScanChars == {"[", "]", ",", QUOTE, "7", "null", " ", "x"}

\* {"color": "a", "color": null, "type": "b"}: a repeated key
RepeatedKeyText ==
    <<"[", "{", QUOTE, "color", QUOTE, ":", QUOTE, "a", QUOTE, ",",
      QUOTE, "color", QUOTE, ":", "null", ",",
      QUOTE, "type", QUOTE, ":", QUOTE, "b", QUOTE, "}", "]">>

Texts ==
    SeqsUpTo(ScanChars, MaxTextLen) \cup ComposedTexts
    \cup {RepeatedKeyText,
          <<"[", "{", QUOTE, "color", QUOTE, ":", QUOTE, "]", QUOTE, ",",
            QUOTE, "type", QUOTE, ":", QUOTE, "[", QUOTE, "}", "]">>,
          <<"[", "{", "}", ",", "]">>, <<"[", "{", QUOTE, "color", QUOTE, "}", "]">>,
          <<"[", "{", QUOTE, "color", QUOTE, ":", "}", "]">>,
          <<"{", QUOTE, "color", QUOTE, ":", "[", "]", "}">>}

FinishReasons ==
    {None, Str(<<>>), Str(<<"stop">>), Str(<<"length">>), Str(<<"content_filter">>)}

\* choices[0].message
Message(content) == <<"message", <<content>>>>

Choice(message, finish_reason) == [message |-> message, finish_reason |-> finish_reason]

Completion(choices) == [choices |-> choices]

LlmRemote(kind, completion) == [kind |-> kind, completion |-> completion]

LlmFailures ==
    {LlmRemote(kd, Completion(<<>>)) : kd \in {"client_error", "api_error"}}

\* completions with no content or with empty content, under every finish reason
EmptyCompletions ==
    {Completion(<<>>)}
    \cup {Completion(<<Choice(m, f)>>) :
            m \in {None, Message(None), Message(Str(<<>>))}, f \in FinishReasons}

TextCompletions ==
    {Completion(<<Choice(Message(Str(t)), Str(<<"stop">>))>>) : t \in Texts}

LlmRemotes ==
    LlmFailures
    \cup {LlmRemote("completion", c) : c \in EmptyCompletions \cup TextCompletions}

ExampleText == <<"Some items", ":", " ">> \o Render(List(<<BlueJacket>>), <<>>)

FewTexts ==
    {ExampleText, <<"[", "]">>, Render(List(<<TypeShirtOnly>>), <<>>),
     Render(List(<<NullColorShirt, BlueJacket>>), <<" ">>),
     <<"[", "x">>, <<"x">>, <<"]", "[">>}

\* the answers the batch draws from: every failure, every odd shape, a few captions
BatchBlipRemotes ==
    FewBlipRemotes
    \cup {BlipRemote("ok", b) : b \in OddBodies}
    \cup {BlipRemote("ok", Predictions(List(<<x>>))) : x \in OddPredictionItems}
    \cup {BlipRemote("ok", Predictions(List(<<Str(c)>>))) :
            c \in {<<>>, ErrorInvalidImage, <<"a", "r", "o", "e">>}}

\* the answers used where the configuration varies too
FewLlmRemotes ==
    LlmFailures
    \cup {LlmRemote("completion", c) :
            c \in {Completion(<<>>),
                   Completion(<<Choice(None, Str(<<"stop">>))>>),
                   Completion(<<Choice(Message(None), Str(<<"content_filter">>))>>),
                   Completion(<<Choice(Message(Str(<<>>)), Str(<<"length">>))>>)}
                 \cup {Completion(<<Choice(Message(Str(t)), Str(<<"stop">>))>>) :
                          t \in FewTexts}}

----------------------------------------------------------------------------
(* One direct call of a helper, its arguments drawn from the sets above *)

InitUnit ==
    /\ mode \in {"unit_blip", "unit_llm"}
    /\ pc = "call"
    /\ \/ /\ mode = "unit_blip"
          /\ llm_remote \in {LlmRemote("api_error", Completion(<<>>))}
          /\ \/ cfg \in Configs /\ blip_remote \in FewBlipRemotes
             \/ cfg = GoodConfig /\ blip_remote \in BlipRemotes
       \/ /\ mode = "unit_llm"
          /\ blip_remote \in {BlipRemote("timeout", None)}
          /\ \/ cfg \in Configs /\ llm_remote \in FewLlmRemotes
             \/ cfg = GoodConfig /\ llm_remote \in LlmRemotes
    /\ blip_ret = NotCalled
    /\ llm_ret = NotCalled
    /\ n_files = 0
    /\ file_index = 0
    /\ calls = <<>>
    /\ shown = <<>>

UnitCallBlip ==
    /\ mode = "unit_blip"
    /\ pc = "call"
    /\ blip_ret' = call_blip_endpoint(cfg.BLIP_ENDPOINT_URL, cfg.DATABRICKS_API_TOKEN,
                                      blip_remote)
    /\ pc' = "returned"
    /\ UNCHANGED <<mode, cfg, blip_remote, llm_remote, llm_ret, n_files, file_index,
                   calls, shown>>

UnitCallLlm ==
    /\ mode = "unit_llm"
    /\ pc = "call"
    /\ llm_ret' = call_llm_endpoint(cfg.LLM_ENDPOINT_NAME, cfg.DATABRICKS_HOST,
                                    cfg.DATABRICKS_API_TOKEN, llm_remote)
    /\ pc' = "returned"
    /\ UNCHANGED <<mode, cfg, blip_remote, llm_remote, blip_ret, n_files, file_index,
                   calls, shown>>

NextUnit == UnitCallBlip \/ UnitCallLlm

SpecUnit == InitUnit /\ [][NextUnit]_vars

----------------------------------------------------------------------------
(* The button handler: the loop over uploaded_files, lines 199-268 *)

Call(file, stage, ret) ==
    [file |-> file, stage |-> stage, net |-> ret.net,
     ok |-> TypeOf(ret.error) = "none"]

Shown(file, kind, error, items) ==
    [file |-> file, kind |-> kind, error |-> error, items |-> items]

\* mutant: Step 2 runs whatever Step 1 returned
VisionBranch_IgnoreError(caption, error_message) ==
    IF Truthy(caption) \/ Truthy(error_message) THEN "call_llm"
    ELSE "no_caption_or_error"

\* lines 226-228 and 267: what follows the caption call
VisionBranch(caption, error_message) ==
    IF Truthy(error_message) THEN "vision_failed"
    ELSE IF Truthy(caption) THEN "call_llm"
    ELSE "no_caption_or_error"

\* lines 236-241 and 265: what follows the extraction call
LlmBranch(final_result_list, error_message) ==
    IF Truthy(error_message) THEN "llm_failed"
    ELSE IF TypeOf(final_result_list) # "none"
    THEN (IF ~Truthy(final_result_list) THEN "results_empty" ELSE "results")
    ELSE "no_list_or_error"

\* mutant: a failed image ends the loop
AfterOutcome_StopOnFailure(kind, index, n) ==
    IF index + 1 < n /\ kind \notin {"vision_failed", "llm_failed"}
    THEN [pc |-> "vision", file_index |-> index + 1]
    ELSE [pc |-> "done", file_index |-> index + 1]

\* line 201: where the loop goes once image file_index has its outcome
AfterOutcome(kind, index, n) ==
    IF index + 1 < n THEN [pc |-> "vision", file_index |-> index + 1]
    ELSE [pc |-> "done", file_index |-> index + 1]

Init ==
    /\ mode = "batch"
    /\ cfg \in BatchConfigs
    /\ n_files \in 1..MaxFiles
    /\ pc = "idle"
    /\ blip_remote = BlipRemote("timeout", None)
    /\ llm_remote = LlmRemote("api_error", Completion(<<>>))
    /\ blip_ret = NotCalled
    /\ llm_ret = NotCalled
    /\ file_index = 0
    /\ calls = <<>>
    /\ shown = <<>>

\* line 199: the button starts a run of the loop
ClickAnalyze ==
    /\ mode = "batch"
    /\ pc \in {"idle", "done"}
    /\ pc' = "vision"
    /\ file_index' = 0
    /\ calls' = <<>>
    /\ shown' = <<>>
    /\ blip_ret' = NotCalled
    /\ llm_ret' = NotCalled
    /\ blip_remote' = BlipRemote("timeout", None)
    /\ llm_remote' = LlmRemote("api_error", Completion(<<>>))
    /\ UNCHANGED <<mode, cfg, n_files>>

\* lines 217-229 and 267-268: Step 1 for image file_index
Step1 ==
    /\ mode = "batch"
    /\ pc = "vision"
    /\ \E remote \in BatchBlipRemotes :
          LET ret == call_blip_endpoint(cfg.BLIP_ENDPOINT_URL,
                                        cfg.DATABRICKS_API_TOKEN, remote)
              branch == VisionBranch(ret.value, ret.error)
              after == AfterOutcome(branch, file_index, n_files)
          IN /\ blip_remote' = remote
             /\ blip_ret' = ret
             /\ llm_ret' = NotCalled
             /\ calls' = Append(calls, Call(file_index, "caption", ret))
             /\ IF branch = "call_llm"
                THEN /\ pc' = "llm"
                     /\ UNCHANGED <<file_index, shown>>
                ELSE /\ pc' = after.pc
                     /\ file_index' = after.file_index
                     /\ shown' = Append(shown, Shown(file_index, branch, ret.error, None))
    /\ UNCHANGED <<mode, cfg, n_files, llm_remote>>

\* lines 231-266: Step 2 for image file_index
Step2 ==
    /\ mode = "batch"
    /\ pc = "llm"
    /\ \E remote \in FewLlmRemotes :
          LET ret == call_llm_endpoint(cfg.LLM_ENDPOINT_NAME, cfg.DATABRICKS_HOST,
                                       cfg.DATABRICKS_API_TOKEN, remote)
              branch == LlmBranch(ret.value, ret.error)
              after == AfterOutcome(branch, file_index, n_files)
          IN /\ llm_remote' = remote
             /\ llm_ret' = ret
             /\ calls' = Append(calls, Call(file_index, "extract", ret))
             /\ pc' = after.pc
             /\ file_index' = after.file_index
             /\ shown' = Append(shown, Shown(file_index, branch, ret.error, ret.value))
    /\ UNCHANGED <<mode, cfg, n_files, blip_remote, blip_ret>>

Next == ClickAnalyze \/ Step1 \/ Step2

Spec == Init /\ [][Next]_vars

----------------------------------------------------------------------------
(* Properties *)

Failure(ret) == TypeOf(ret.value) = "none" /\ TypeOf(ret.error) = "str" /\ Truthy(ret.error)
Success(ret) == TypeOf(ret.value) # "none" /\ TypeOf(ret.error) = "none"

BlipReturned == mode = "unit_blip" /\ pc = "returned"
LlmReturned == mode = "unit_llm" /\ pc = "returned"

\* C1: call_llm_endpoint is called for an image only right after that image's
\* call_blip_endpoint returned a caption and no error; an image whose caption
\* call failed has no extraction call.
C1_ExtractOnlyAfterCaption ==
    /\ \A j \in DOMAIN calls :
          calls[j].stage = "extract" =>
             /\ j > 1
             /\ calls[j - 1].stage = "caption"
             /\ calls[j - 1].file = calls[j].file
             /\ calls[j - 1].ok
    /\ \A j, n \in DOMAIN calls :
          (calls[j].stage = "caption" /\ ~calls[j].ok /\ calls[n].file = calls[j].file)
             => calls[n].stage # "extract"
    /\ pc = "llm" => Success(blip_ret) /\ Truthy(blip_ret.value)

C1_Witness ==
    /\ \E j \in DOMAIN calls : calls[j].stage = "extract"
    /\ \E j \in DOMAIN calls : calls[j].stage = "caption" /\ ~calls[j].ok

\* the configuration values C2 names
BlipMisconfigured ==
    \/ cfg.BLIP_ENDPOINT_URL \in {<<>>, BLIP_URL_DEFAULT}
    \/ cfg.DATABRICKS_API_TOKEN \in {<<>>, TOKEN_DEFAULT}

NoScheme(host) == host = <<>> \/ host[1] \notin {"http://", "https://"}

LlmMisconfigured ==
    \/ cfg.LLM_ENDPOINT_NAME \in {<<>>, LLM_NAME_DEFAULT}
    \/ cfg.DATABRICKS_HOST \in {<<>>, HOST_DEFAULT}
    \/ cfg.DATABRICKS_API_TOKEN \in {<<>>, TOKEN_DEFAULT}
    \/ NoScheme(cfg.DATABRICKS_HOST)

\* C2: a call whose configuration is empty or the placeholder (or, for the
\* extraction call, whose host has no http:// or https:// scheme) returns a
\* Failure and sends no remote request.
C2_MisconfiguredSendsNothing ==
    /\ (BlipReturned /\ BlipMisconfigured) => Failure(blip_ret) /\ blip_ret.net = 0
    /\ (LlmReturned /\ LlmMisconfigured) => Failure(llm_ret) /\ llm_ret.net = 0

C2_Witness ==
    /\ LlmReturned
    /\ cfg = [GoodConfig EXCEPT !.DATABRICKS_HOST = <<"ftp://", "adb.example">>]
    /\ llm_remote.kind = "completion"
    /\ Failure(llm_ret)
    /\ llm_ret.net = 0

\* the 2xx answers to a call that passed the configuration check
BlipAnswered ==
    /\ BlipReturned
    /\ TypeOf(BlipConfigError(cfg.BLIP_ENDPOINT_URL, cfg.DATABRICKS_API_TOKEN)) = "none"
    /\ blip_remote.kind = "ok"

IsPredictionList(body) ==
    /\ TypeOf(body) = "dict"
    /\ \E i \in DOMAIN Val(body) :
          /\ Val(body)[i][1] = <<"predictions">>
          /\ TypeOf(Val(body)[i][2]) = "list"
          /\ Val(Val(body)[i][2]) # <<>>

FirstPrediction(body) ==
    Val(Val(body)[CHOOSE i \in DOMAIN Val(body) : Val(body)[i][1] = <<"predictions">>][2])[1]

IsBare(x) == TypeOf(x) = "str"
IsKeyed(x) ==
    TypeOf(x) = "dict" /\ Len(Val(x)) = 1 /\ Val(x)[1][1] = <<"0">>
    /\ TypeOf(Val(x)[1][2]) = "str"

\* the same body with its first prediction in the other of the two shapes
OtherShape(body) ==
    LET x == FirstPrediction(body)
        preds == Val(GetKey(body, <<"predictions">>))
        y == IF IsBare(x) THEN Keyed0(x) ELSE Val(x)[1][2]
    IN SetKey(body, <<"predictions">>, List([preds EXCEPT ![1] = y]))

SameForBothShapes ==
    (BlipAnswered /\ IsPredictionList(blip_remote.body)
       /\ (IsBare(FirstPrediction(blip_remote.body))
             \/ IsKeyed(FirstPrediction(blip_remote.body))))
    => LET other == call_blip_endpoint(cfg.BLIP_ENDPOINT_URL, cfg.DATABRICKS_API_TOKEN,
                                       BlipRemote("ok", OtherShape(blip_remote.body)))
       IN blip_ret.value = other.value /\ blip_ret.error = other.error

HasTwoShapes(body) ==
    IsPredictionList(body)
    /\ (IsBare(FirstPrediction(body)) \/ IsKeyed(FirstPrediction(body)))

\* C3 as stated: the two shapes give the same result, and every other shape
\* is the failure "unexpected response format".
C3_AnyOtherShapeIsUnexpectedFormat ==
    /\ SameForBothShapes
    /\ (BlipAnswered /\ ~HasTwoShapes(blip_remote.body))
          => Failure(blip_ret) /\ blip_ret.error = Msg("Unexpected BLIP response format")

\* C3 as amended: the two shapes give the same result; in a body that is a
\* JSON object a missing predictions key, predictions that are not a list and
\* an empty list are "unexpected response format", and a first prediction of
\* any other type is "invalid caption"; a body that is not a JSON object is
\* "unexpected response format" when it is a list or a string that does not
\* hold "predictions", and the generic "unexpected error" otherwise.
C3_WrongTypeIsInvalidCaption ==
    /\ SameForBothShapes
    /\ (BlipAnswered /\ TypeOf(blip_remote.body) # "dict")
          => /\ Failure(blip_ret)
             /\ blip_ret.error =
                   IF \/ /\ TypeOf(blip_remote.body) = "list"
                         /\ Str(<<"predictions">>) \notin
                               {Val(blip_remote.body)[i] : i \in DOMAIN Val(blip_remote.body)}
                      \/ /\ TypeOf(blip_remote.body) = "str"
                         /\ Val(blip_remote.body) # <<"predictions">>
                   THEN Msg("Unexpected BLIP response format")
                   ELSE Msg("Unexpected error calling BLIP")
    /\ (BlipAnswered /\ TypeOf(blip_remote.body) = "dict")
          => /\ ~IsPredictionList(blip_remote.body)
                   => Failure(blip_ret)
                      /\ blip_ret.error = Msg("Unexpected BLIP response format")
             /\ (IsPredictionList(blip_remote.body) /\ ~HasTwoShapes(blip_remote.body))
                   => Failure(blip_ret)
                      /\ blip_ret.error = Msg("Invalid caption/error from BLIP")

C3_Witness ==
    /\ BlipAnswered
    /\ blip_remote.body = Predictions(List(<<Keyed0(Str(RedJacket))>>))
    /\ blip_ret.value = Str(RedJacket)
    /\ TypeOf(blip_ret.error) = "none"

\* the caption string of a body in one of the two shapes
NormalizedCaption(body) ==
    LET x == FirstPrediction(body) IN IF IsBare(x) THEN Val(x) ELSE Val(Val(x)[1][2])

SaysError(s) ==
    \E i \in 1..(Len(s) - 4) :
        /\ s[i] \in {"e", "E"}
        /\ s[i + 1] \in {"r", "R"}
        /\ s[i + 2] \in {"r", "R"}
        /\ s[i + 3] \in {"o", "O"}
        /\ s[i + 4] \in {"r", "R"}

\* C4: the normalized caption s is returned as Success(s), unchanged, exactly
\* when it is longer than 3 characters and does not hold "error" in any letter
\* case; otherwise the call returns the failure "invalid caption".
C4_CaptionValidation ==
    (BlipAnswered /\ HasTwoShapes(blip_remote.body))
    => LET s == NormalizedCaption(blip_remote.body) IN
       IF Len(s) > 3 /\ ~SaysError(s)
       THEN blip_ret.value = Str(s) /\ TypeOf(blip_ret.error) = "none"
       ELSE Failure(blip_ret) /\ blip_ret.error = Msg("Invalid caption/error from BLIP")

C4_Witness ==
    /\ BlipAnswered
    /\ blip_remote.body = Predictions(List(<<Str(<<"n", "o", " ", "E", "R", "R", "O", "R">>)>>))
    /\ Failure(blip_ret)

\* the completions returned to a call that passed the configuration check
LlmAnswered ==
    /\ LlmReturned
    /\ TypeOf(LlmConfigError(cfg.LLM_ENDPOINT_NAME, cfg.DATABRICKS_HOST,
                             cfg.DATABRICKS_API_TOKEN)) = "none"
    /\ llm_remote.kind = "completion"

\* the content of the completion, None when it has none
ContentOf(completion) ==
    IF completion.choices = <<>> THEN None
    ELSE IF TypeOf(completion.choices[1].message) = "none" THEN None
    ELSE Val(completion.choices[1].message)[1]

HasText == LlmAnswered /\ TypeOf(ContentOf(llm_remote.completion)) = "str"
Text == Val(ContentOf(llm_remote.completion))

Opens(t) == {i \in DOMAIN t : t[i] = "["}
Closes(t) == {i \in DOMAIN t : t[i] = "]"}
Least(S) == CHOOSE i \in S : \A j \in S : i <= j
Greatest(S) == CHOOSE i \in S : \A j \in S : i >= j

HasBracketPair(t) ==
    Opens(t) # {} /\ Closes(t) # {} /\ Greatest(Closes(t)) >= Least(Opens(t))

\* from the first '[' to the last ']', both included
Candidate(t) == SubSeq(t, Least(Opens(t)), Greatest(Closes(t)))

\* the text holds a candidate that parses to a list
ParsesToList ==
    /\ HasText
    /\ HasBracketPair(Text)
    /\ JsonLoads(Candidate(Text)).ok
    /\ TypeOf(JsonLoads(Candidate(Text)).val) = "list"

ParsedList == Val(JsonLoads(Candidate(Text)).val)

KeysOf(x) == {Val(x)[i][1] : i \in DOMAIN Val(x)}
HasBothKeys(x) == TypeOf(x) = "dict" /\ {<<"color">>, <<"type">>} \subseteq KeysOf(x)
Kept(xs) == SelectSeq(xs, HasBothKeys)

\* item is entry with nothing changed but the values of color and type
SameEntry(item, entry) ==
    /\ TypeOf(item) = "dict"
    /\ Len(Val(item)) = Len(Val(entry))
    /\ \A i \in DOMAIN Val(entry) :
          /\ Val(item)[i][1] = Val(entry)[i][1]
          /\ (Val(entry)[i][1] \notin {<<"color">>, <<"type">>}
                \/ TypeOf(Val(entry)[i][2]) = "str")
                => Val(item)[i][2] = Val(entry)[i][2]

\* C5: of the parsed list exactly the mappings with both a color and a type
\* key are kept, in order; a non-empty list with nothing kept is the failure
\* "no valid items in list"; otherwise the call succeeds with the kept
\* entries, and [] gives Success([]), which the pipeline shows as a result.
C5_KeepsEntriesWithBothKeys ==
    ParsesToList
    => IF ParsedList # <<>> /\ Kept(ParsedList) = <<>>
       THEN Failure(llm_ret) /\ llm_ret.error = Msg("LLM list items lacked keys")
       ELSE /\ Success(llm_ret)
            /\ TypeOf(llm_ret.value) = "list"
            /\ Len(Val(llm_ret.value)) = Len(Kept(ParsedList))
            /\ \A i \in DOMAIN Val(llm_ret.value) :
                  SameEntry(Val(llm_ret.value)[i], Kept(ParsedList)[i])
            /\ ParsedList = <<>>
                  => /\ llm_ret.value = List(<<>>)
                     /\ LlmBranch(llm_ret.value, llm_ret.error) = "results_empty"

C5_Witness ==
    /\ ParsesToList
    /\ Text = Render(List(<<TypeShirtOnly, BlueJacket>>), <<>>)
    /\ llm_ret.value = List(<<BlueJacket>>)

\* C6 as stated: in a Success every item's color and type are strings; a
\* value that was null in the model's output is "unknown", a number is its
\* string form.
C6_NullBecomesUnknown ==
    (ParsesToList /\ Success(llm_ret))
    => \A i \in DOMAIN Val(llm_ret.value) :
          \A key \in {<<"color">>, <<"type">>} :
             LET was == GetKey(Kept(ParsedList)[i], key)
                 is == GetKey(Val(llm_ret.value)[i], key)
             IN /\ TypeOf(is) = "str"
                /\ TypeOf(was) = "none" => is = Str(<<"unknown">>)
                /\ TypeOf(was) = "num" => is = Str(Val(was))

EmptyResponseMessage == "LLM endpoint returned a null or empty response content."

\* C7 as stated: content that is null or the empty string (a completion with
\* no choices included) gives the failure "empty model response", without the
\* bracket scan or the JSON parse.
C7_EmptyContentIsEmptyResponse ==
    (LlmAnswered /\ ContentOf(llm_remote.completion) \in {None, Str(<<>>)})
    => /\ Failure(llm_ret)
       /\ Val(llm_ret.error)[1] = EmptyResponseMessage
       /\ \A i \in DOMAIN llm_ret.steps : llm_ret.steps[i] \notin {"scan", "loads"}

\* C8: for non-empty text the candidate is the substring from the first '['
\* to the last ']'; without such a pair the call fails with "no JSON list
\* found", with a candidate that does not parse it fails with "malformed
\* JSON", in both cases without items; prose around the list is ignored.
C8_BracketScan ==
    (HasText /\ Text # <<>>)
    => /\ ~HasBracketPair(Text)
             => Failure(llm_ret)
                /\ llm_ret.error = Msg("Could not find JSON list markers '[]'")
       /\ (HasBracketPair(Text) /\ ~JsonLoads(Candidate(Text)).ok)
             => Failure(llm_ret) /\ llm_ret.error = Msg("Failed to parse JSON list")
       /\ (HasBracketPair(Text) /\ JsonLoads(Candidate(Text)).ok)
             => llm_ret.error \notin {Msg("Could not find JSON list markers '[]'"),
                                      Msg("Failed to parse JSON list")}
       /\ Text = ExampleText => llm_ret.value = List(<<BlueJacket>>)

C8_Witness ==
    /\ HasText
    /\ Text = ExampleText
    /\ llm_ret.value = List(<<BlueJacket>>)
    /\ TypeOf(llm_ret.error) = "none"

\* C9: the images are processed in upload order, one pipeline at a time: a
\* call for an image is made only once every earlier image has its outcome,
\* each image gets at most one caption call and at most one extraction call,
\* and a failure ends that image only: a finished run shows one outcome per
\* uploaded image.
C9_SequentialBatch ==
    /\ \A j \in DOMAIN calls :
          /\ calls[j].file < n_files
          /\ calls[j].file <= Len(shown)
    /\ \A j, n \in DOMAIN calls :
          j < n => /\ calls[j].file <= calls[n].file
                   /\ calls[j].file = calls[n].file
                         => calls[j].stage = "caption" /\ calls[n].stage = "extract"
    /\ \A i \in DOMAIN shown :
          /\ shown[i].file = i - 1
          /\ \E j \in DOMAIN calls : calls[j].file = i - 1 /\ calls[j].stage = "caption"
    /\ pc = "done" => Len(shown) = n_files

C9_Witness ==
    /\ pc = "done"
    /\ Len(shown) >= 2
    /\ shown[1].kind = "vision_failed"
    /\ shown[2].kind = "results"

ExactlyOneNone(ret) ==
    /\ (TypeOf(ret.value) = "none") # (TypeOf(ret.error) = "none")
    /\ TypeOf(ret.error) # "none" => TypeOf(ret.error) = "str" /\ Truthy(ret.error)

\* C10: whatever the remote services do, each helper returns (value, error)
\* with exactly one of the two None and a non-empty reason in a failure, so
\* every image ends as a vision failure, an extraction failure or a result
\* list and never in a fall-through branch.
C10_AlwaysDiscriminated ==
    /\ calls # <<>> => ExactlyOneNone(blip_ret)
    /\ (calls # <<>> /\ calls[Len(calls)].stage = "caption" /\ blip_remote.kind # "ok")
          => Failure(blip_ret)
    /\ (calls # <<>> /\ calls[Len(calls)].stage = "extract")
          => /\ ExactlyOneNone(llm_ret)
             /\ llm_remote.kind # "completion" => Failure(llm_ret)
    /\ \A i \in DOMAIN shown :
          /\ shown[i].kind \in {"vision_failed", "llm_failed", "results", "results_empty"}
          /\ shown[i].kind \in {"vision_failed", "llm_failed"}
                <=> TypeOf(shown[i].error) # "none"
          /\ shown[i].kind \in {"results", "results_empty"}
                <=> TypeOf(shown[i].items) = "list"

C10_Witness ==
    /\ pc = "done"
    /\ Len(shown) >= 2
    /\ shown[1].kind = "llm_failed"
    /\ shown[1].error = Msg("LLM API Call Failed")
    /\ shown[2].kind = "vision_failed"
    /\ shown[2].error = Msg("Request to BLIP endpoint timed out.")

====
